---- MODULE Spec2Model ----
(***************************************************************************)
(* Container lifecycle of the file-sharing server: the POST /api/upload    *)
(* handler, the GET /share/:uuid and GET /action/download/:fileId          *)
(* handlers and the once-per-minute cron sweep, over a metadata            *)
(* repository (the Container collection) and a blob store (Cloudinary).    *)
(* The clock counts minutes. One upload request and one sweep run are in    *)
(* flight at a time; the GET handlers have a single await and are one step.*)
(* The upload page's scripts, with their file lists and the upload history *)
(* in localStorage, are the variable client and have specifications of     *)
(* their own.                                                              *)
(***************************************************************************)
EXTENDS Integers, Sequences, FiniteSets, TLC

\* ---------------------------------------------------------------- bounds

\* The clock stops at MaxTime; no request starts that would draw an id above MaxId.
MaxTime == 2
MaxId == 4
\* The most files the page's lists hold.
MaxFiles == 3
\* The most upload requests of one page in flight at once.
MaxPending == 2
\* The most entries a page saves to the history.
MaxUploads == 12

\* ---------------------------------------------------------------- inputs

\* Values of the expiryDuration form field, as the characters the client sent.
DurationInputs ==
    { <<"1">>, <<"0">>, <<"-", "1">>, <<"x">> }

\* Uploaded files: the client's file name, and the resource type the blob
\* store detects for the content when asked for automatic detection.
PngFile == [originalname |-> <<"a", ".", "p", "n", "g">>, detected |-> "image"]

ZipFile == [originalname |-> <<"b", ".", "Z", "I", "P">>, detected |-> "raw"]

\* The requests' req.files and containerName field: no file, one file, two files.
UploadInputs ==
    { [files |-> <<>>, containerName |-> ""],
      [files |-> <<PngFile>>, containerName |-> ""],
      [files |-> <<ZipFile, PngFile>>, containerName |-> "Docs"] }

\* More file names: an extension added to the list last, one in mixed case, no
\* extension, and a name that is only a dot and letters of the list.
SevenZFile == [originalname |-> <<"c", ".", "7", "z">>, detected |-> "raw"]

ApkFile == [originalname |-> <<"e", ".", "A", "p", "k">>, detected |-> "raw"]

NoExtFile == [originalname |-> <<"d">>, detected |-> "raw"]

DotFile == [originalname |-> <<".", "z", "i", "p">>, detected |-> "raw"]

\* Requests of one file of each name, and one whose containerName is a blank.
MoreUploadInputs ==
    UploadInputs \cup
    { [files |-> <<f>>, containerName |-> ""] :
        f \in { SevenZFile, ApkFile, NoExtFile, DotFile } } \cup
    { [files |-> <<PngFile>>, containerName |-> " "] }

\* File objects the user can select or drop on the page: two files of the same
\* name, and one of another name.
ClientFiles ==
    { [name |-> "a.png", size |-> 1], [name |-> "a.png", size |-> 2],
      [name |-> "b.zip", size |-> 1] }

\* The FileList of one change or drop event: one file, or two.
FileLists ==
    { <<f>> : f \in ClientFiles } \cup
    { <<f, g>> : f \in ClientFiles, g \in ClientFiles }

\* ------------------------------------------------------------ JS numbers

NaN == [nan |-> TRUE, v |-> 0]

Num(n) == [nan |-> FALSE, v |-> n]

Digits == { "0", "1", "2", "3", "4", "5", "6", "7", "8", "9" }

DigitVal(c) ==
    CASE c = "0" -> 0 [] c = "1" -> 1 [] c = "2" -> 2 [] c = "3" -> 3
      [] c = "4" -> 4 [] c = "5" -> 5 [] c = "6" -> 6 [] c = "7" -> 7
      [] c = "8" -> 8 [] c = "9" -> 9

RECURSIVE SkipSpaces(_)
SkipSpaces(s) ==
    IF s # <<>> /\ Head(s) = " " THEN SkipSpaces(Tail(s)) ELSE s

RECURSIVE DigitPrefix(_)
DigitPrefix(s) ==
    IF s # <<>> /\ Head(s) \in Digits
    THEN <<Head(s)>> \o DigitPrefix(Tail(s))
    ELSE <<>>

RECURSIVE DigitsValue(_, _)
DigitsValue(s, acc) ==
    IF s = <<>> THEN acc ELSE DigitsValue(Tail(s), 10 * acc + DigitVal(Head(s)))

\* parseInt(string): leading blanks skipped, an optional sign, then the longest
\* run of decimal digits; NaN when there is no digit.
parseInt(str) ==
    LET s == SkipSpaces(str)
        neg == s # <<>> /\ Head(s) = "-"
        signed == s # <<>> /\ Head(s) \in { "-", "+" }
        body == IF signed THEN Tail(s) ELSE s
        ds == DigitPrefix(body)
    IN  IF ds = <<>> THEN NaN
        ELSE Num(IF neg THEN 0 - DigitsValue(ds, 0) ELSE DigitsValue(ds, 0))

\* Date.setMinutes(getMinutes() + m) on a date d (minutes): Invalid Date for NaN.
setMinutes(d, m) == IF m.nan THEN NaN ELSE Num(d + m.v)

\* ------------------------------------------------------------ file names

RECURSIVE LastDot(_, _)
LastDot(s, i) ==
    IF i = 0 THEN 0 ELSE IF s[i] = "." THEN i ELSE LastDot(s, i - 1)

\* path.extname: from the last dot on; empty when there is none or the name
\* starts with its only dot.
extname(name) ==
    LET d == LastDot(name, Len(name))
    IN  IF d <= 1 THEN <<>> ELSE SubSeq(name, d, Len(name))

\* path.basename(name, ext)
basename(name, ext) ==
    IF ext # <<>> /\ Len(name) > Len(ext)
          /\ SubSeq(name, Len(name) - Len(ext) + 1, Len(name)) = ext
    THEN SubSeq(name, 1, Len(name) - Len(ext))
    ELSE name

LowerChar(c) ==
    CASE c = "Z" -> "z" [] c = "I" -> "i" [] c = "P" -> "p"
      [] c = "A" -> "a" [] c = "K" -> "k" [] c = "E" -> "e" [] c = "X" -> "x"
      [] OTHER -> c

toLowerCase(s) == [i \in 1..Len(s) |-> LowerChar(s[i])]

RawExtensions ==
    { <<".", "a", "p", "k">>, <<".", "e", "x", "e">>, <<".", "m", "s", "i">>,
      <<".", "d", "m", "g">>, <<".", "i", "s", "o">>, <<".", "b", "i", "n">>,
      <<".", "r", "a", "r">>, <<".", "z", "i", "p">>, <<".", "7", "z">> }

\* The comparison without toLowerCase.
resType_CaseSensitive(originalName) ==
    IF extname(originalName) \in RawExtensions THEN "raw" ELSE "auto"

\* The resource_type the upload asks for.
resType(originalName) ==
    IF toLowerCase(extname(originalName)) \in RawExtensions THEN "raw" ELSE "auto"

\* ------------------------------------------------------------------ state

VARIABLES
    now,        \* the clock, in minutes
    repo,       \* the Container collection, in insertion order
    blobs,      \* the blob store: the objects it holds, [key, rtype]
    nextId,     \* source of fresh uuids, document ids and blob keys
    up,         \* the upload request being handled
    sweep,      \* the cron sweep run
    sweep2,     \* a second sweep run, overlapping the first
    server,     \* the process: its database connection, app.listen, cron.schedule
    resp,       \* the response a GET handler is sending; it has left the server
                \* by the server's next step
    client      \* the upload page in a browser: its script's variables, its DOM
                \* lists and its localStorage

vars == <<now, repo, blobs, nextId, up, sweep, sweep2, server, resp, client>>

\* ------------------------------------------------------------ the records

NoContainer == [id |-> 0]

NoDate == Num(0)

IdleUp ==
    [pc |-> "idle", files |-> <<>>, containerName |-> "", expiryDuration |-> <<>>,
     expiryDate |-> NoDate, uploadedFiles |-> <<>>, newContainer |-> NoContainer,
     staged |-> {}, status |-> 0]

\* calls: the destroy calls the run has made for the container it is at.
IdleSweep ==
    [pc |-> "idle", now |-> 0, expiredContainers |-> <<>>, ci |-> 0, fi |-> 0,
     calls |-> <<>>]

\* error: what the handler's catch caught, if it answered from there.
NoResp ==
    [op |-> "none", id |-> 0, outcome |-> "none", at |-> 0,
     container |-> NoContainer, url |-> <<>>, error |-> "none"]

\* The response of route op to the request for id, at clock reading d.
Response(op, id, d, outcome) ==
    [NoResp EXCEPT !.op = op, !.id = id, !.at = d, !.outcome = outcome]

\* The upload page just loaded, nothing selected and localStorage without an
\* uploadHistory item. filesToUpload and fileList are the first script's send
\* list and displayed entries, formData the files of the request it sent last
\* and overlay the overlay it shows; selectedFiles and fileStack are the later
\* script's lists and historyList the share links of its displayed history;
\* pending counts the later script's requests in flight and saved the entries
\* it has saved to the history.
PageLoaded ==
    [filesToUpload |-> <<>>, fileList |-> <<>>, formData |-> <<>>, overlay |-> "none",
     selectedFiles |-> <<>>, fileStack |-> <<>>, historyList |-> <<>>,
     uploadHistory |-> [present |-> FALSE, items |-> <<>>],
     pending |-> 0, saved |-> 0]

\* The process with the module loaded and the connection made.
Serving == [db |-> "connected", listening |-> TRUE, cron |-> TRUE]

Init ==
    /\ now = 0
    /\ repo = <<>>
    /\ blobs = {}
    /\ nextId = 1
    /\ up = IdleUp
    /\ sweep = IdleSweep
    /\ sweep2 = IdleSweep
    /\ server = Serving
    /\ resp = NoResp
    /\ client = PageLoaded

\* The clock advances.
Tick ==
    /\ now < MaxTime
    /\ now' = now + 1
    /\ resp' = NoResp
    /\ UNCHANGED <<repo, blobs, nextId, up, sweep, sweep2, server, client>>

\* ------------------------------------------------------- POST /api/upload

\* What result.secure_url is for a stored object.
secure_url(rtype, key) == <<"res", rtype, "upload", key>>

\* The file record pushed on uploadedFiles for file `file` stored as `result`.
uploadedFile(file, result) ==
    LET originalName == file.originalname
        ext == extname(originalName)
    IN  [fid |-> result.public_id,
         originalName |-> originalName,
         cleanName |-> basename(originalName, ext),
         extension |-> ext,
         url |-> result.secure_url,
         publicId |-> result.public_id,
         resourceType |-> result.resource_type]

\* What the blob store answers for a stored upload: the resource type is the one
\* asked for, or for "auto" the one it detects.
uploadResult(file, key) ==
    LET asked == resType(file.originalname)
        rtype == IF asked = "auto" THEN file.detected ELSE asked
    IN  [public_id |-> key, resource_type |-> rtype, secure_url |-> secure_url(rtype, key)]

\* new Container({...}): createdAt defaults to Date.now() at construction.
Container(uniqueId, containerName, uploadedFiles, expiryDate) ==
    [id |-> uniqueId,
     uuid |-> uniqueId,
     name |-> IF containerName = "" THEN "Untitled Transfer" ELSE containerName,
     files |-> uploadedFiles,
     createdAt |-> now,
     expiresAt |-> expiryDate]

EmptyCheck_Off(files) == FALSE

\* !files || files.length === 0
EmptyCheck(files) == Len(files) = 0

\* The request arrives and the handler runs to its first await: the empty
\* check, then expiryDate from the clock and the expiryDuration field.
UploadStart(files, containerName, expiryDuration) ==
    /\ up.pc = "idle"
    /\ nextId + Len(files) <= MaxId
    /\ IF EmptyCheck(files)
       THEN up' = [IdleUp EXCEPT !.status = 400]
       ELSE up' = [IdleUp EXCEPT !.pc = "uploading", !.files = files,
                                 !.containerName = containerName,
                                 !.expiryDuration = expiryDuration,
                                 !.expiryDate = setMinutes(now, parseInt(expiryDuration)),
                                 !.staged = 1..Len(files)]
    /\ resp' = NoResp
    /\ UNCHANGED <<now, repo, blobs, nextId, sweep, sweep2, server, client>>

\* A catch block that answers 500 and unlinks nothing.
UploadCatch_NoUnlink == [IdleUp EXCEPT !.status = 500, !.staged = up.staged]

\* The catch block: the staged temporary files are unlinked, status 500. The
\* handler is over: only its response is left.
UploadCatch ==
    [IdleUp EXCEPT !.status = 500]

isLastFile_Any(files, i) == TRUE

\* Whether file i ends the for loop over files.
isLastFile(files, i) == i = Len(files)

\* await cloudinary.uploader.upload_large of the next file ends. When it was the
\* last file the handler goes on to build the Container and awaits its save.
UploadFile(ok) ==
    /\ up.pc = "uploading"
    /\ LET i == Len(up.uploadedFiles) + 1
           file == up.files[i]
           result == uploadResult(file, nextId)
           uploaded == Append(up.uploadedFiles, uploadedFile(file, result))
       IN  IF ok
           THEN /\ blobs' = blobs \cup { [key |-> nextId, rtype |-> result.resource_type] }
                /\ IF isLastFile(up.files, i)
                   THEN /\ up' = [up EXCEPT !.uploadedFiles = uploaded,
                                            !.staged = @ \ {i},
                                            !.newContainer =
                                                Container(nextId + 1, up.containerName,
                                                          uploaded, up.expiryDate),
                                            !.pc = "saving"]
                        /\ nextId' = nextId + 2
                   ELSE /\ up' = [up EXCEPT !.uploadedFiles = uploaded,
                                            !.staged = @ \ {i}]
                        /\ nextId' = nextId + 1
           ELSE /\ up' = UploadCatch
                /\ UNCHANGED <<blobs, nextId>>
    /\ resp' = NoResp
    /\ UNCHANGED <<now, repo, sweep, sweep2, server, client>>

\* A save that replaces the record of the same name instead of inserting.
UploadSave_ReplaceSameName(ok) ==
    /\ up.pc = "saving"
    /\ IF ok /\ ~up.newContainer.expiresAt.nan
       THEN /\ repo' = Append(SelectSeq(repo, LAMBDA c : c.name # up.newContainer.name),
                              [up.newContainer EXCEPT !.expiresAt = @.v])
            /\ up' = [IdleUp EXCEPT !.status = 200]
       ELSE /\ up' = UploadCatch
            /\ UNCHANGED repo
    /\ resp' = NoResp
    /\ UNCHANGED <<now, blobs, nextId, sweep, sweep2, server, client>>

\* await newContainer.save() ends. A Date path holding an Invalid Date fails the
\* document's validation, so that save rejects whatever the repository does.
UploadSave(ok) ==
    /\ up.pc = "saving"
    /\ IF ok /\ ~up.newContainer.expiresAt.nan
       THEN /\ repo' = Append(repo, [up.newContainer EXCEPT !.expiresAt = @.v])
            /\ up' = [IdleUp EXCEPT !.status = 200]
       ELSE /\ up' = UploadCatch
            /\ UNCHANGED repo
    /\ resp' = NoResp
    /\ UNCHANGED <<now, blobs, nextId, sweep, sweep2, server, client>>

\* ---------------------------------------------------------- the GET routes

\* Container.findOne({ uuid }): the first matching document, or null.
findOneByUuid(uuid) ==
    LET hits == SelectSeq(repo, LAMBDA c : c.uuid = uuid)
    IN  IF hits = <<>> THEN NoContainer ELSE Head(hits)

HasFile(c, fileId) == \E i \in 1..Len(c.files) : c.files[i].fid = fileId

\* Container.findOne({ "files._id": fileId })
findOneByFileId(fileId) ==
    LET hits == SelectSeq(repo, LAMBDA c : HasFile(c, fileId))
    IN  IF hits = <<>> THEN NoContainer ELSE Head(hits)

\* No expiry check at all.
isExpired_Never(d, container) == FALSE

\* A minute of grace after expiresAt.
isExpired_Grace(d, container) == d > container.expiresAt + 1

isExpired_Gte(d, container) == d >= container.expiresAt

\* new Date() > new Date(container.expiresAt), at clock reading d
isExpired(d, container) == d > container.expiresAt

\* GET /share/:uuid
SharePage(uuid, dbOk) ==
    /\ LET container == findOneByUuid(uuid)
       IN  resp' =
             IF ~dbOk
             THEN [Response("share", uuid, now, "ServerError") EXCEPT !.error = "rejected"]
             ELSE IF container = NoContainer THEN Response("share", uuid, now, "NotFound")
             ELSE IF isExpired(now, container) THEN Response("share", uuid, now, "Expired")
             ELSE [Response("share", uuid, now, "View") EXCEPT !.container = container]
    /\ UNCHANGED <<now, repo, blobs, nextId, up, sweep, sweep2, server, client>>

\* MM-DD-YYYY of the clock reading d
dateStr(d) == <<"MM-DD-YYYY", d>>

\* file.url.replace('/upload/', `/upload/fl_attachment:${finalFilename}/`)
RECURSIVE injectAttachment(_, _)
injectAttachment(url, finalFilename) ==
    IF url = <<>> THEN <<>>
    ELSE IF Head(url) = "upload"
    THEN <<"upload", <<"fl_attachment", finalFilename>>>> \o Tail(url)
    ELSE <<Head(url)>> \o injectAttachment(Tail(url), finalFilename)

\* container.files.id(fileId)
fileById(container, fileId) ==
    LET i == CHOOSE i \in 1..Len(container.files) : container.files[i].fid = fileId
    IN  container.files[i]

downloadUrl(file, d) ==
    LET cleanName == IF file.cleanName = <<>> THEN <<"download">> ELSE file.cleanName
        finalFilename == <<cleanName, dateStr(d), file.extension>>
    IN  injectAttachment(file.url, finalFilename)

\* The route with a record that has no url answered like one that is not there.
DownloadAction_CorruptAs404(fileId, dbOk) ==
    /\ LET container == findOneByFileId(fileId)
       IN  resp' =
             IF ~dbOk
             THEN [Response("download", fileId, now, "ServerError") EXCEPT !.error = "rejected"]
             ELSE IF container = NoContainer \/ fileById(container, fileId).url = <<>>
             THEN Response("download", fileId, now, "NotFound")
             ELSE [Response("download", fileId, now, "Redirect") EXCEPT
                       !.container = container,
                       !.url = downloadUrl(fileById(container, fileId), now)]
    /\ UNCHANGED <<now, repo, blobs, nextId, up, sweep, sweep2, server, client>>

\* GET /action/download/:fileId
DownloadAction(fileId, dbOk) ==
    /\ LET container == findOneByFileId(fileId)
       IN  resp' =
             IF ~dbOk
             THEN [Response("download", fileId, now, "ServerError") EXCEPT !.error = "rejected"]
             ELSE IF container = NoContainer
             THEN Response("download", fileId, now, "NotFound")
             ELSE IF fileById(container, fileId).url = <<>>
             THEN Response("download", fileId, now, "Corrupt")
             ELSE [Response("download", fileId, now, "Redirect") EXCEPT
                       !.container = container,
                       !.url = downloadUrl(fileById(container, fileId), now)]
    /\ UNCHANGED <<now, repo, blobs, nextId, up, sweep, sweep2, server, client>>

\* The download link the share page of server.js prepares for a file: extension
\* and cleanName fall back to the parts of originalName.
preparedUrl(file, d) ==
    LET ext == IF file.extension = <<>> THEN extname(file.originalName) ELSE file.extension
        cleanName == IF file.cleanName = <<>> THEN basename(file.originalName, ext)
                     ELSE file.cleanName
        newFilename == <<cleanName, dateStr(d), ext>>
    IN  injectAttachment(file.url, newFilename)

\* GET /share/:uuid as server.js has it: the handler gives every file its
\* downloadUrl before it renders. file.url.replace throws a TypeError on a file
\* that has no url; the catch renders it as a server error.
SharePagePrepared(uuid, dbOk) ==
    /\ LET container == findOneByUuid(uuid)
       IN  resp' =
             IF ~dbOk
             THEN [Response("sharePrepared", uuid, now, "ServerError") EXCEPT
                       !.error = "rejected"]
             ELSE IF container = NoContainer
             THEN Response("sharePrepared", uuid, now, "NotFound")
             ELSE IF isExpired(now, container)
             THEN Response("sharePrepared", uuid, now, "Expired")
             ELSE IF \E i \in 1..Len(container.files) : container.files[i].url = <<>>
             THEN [Response("sharePrepared", uuid, now, "ServerError") EXCEPT
                       !.error = "TypeError"]
             ELSE [Response("sharePrepared", uuid, now, "View") EXCEPT
                       !.container =
                           [container EXCEPT !.files =
                               [i \in 1..Len(container.files) |->
                                   [f \in DOMAIN container.files[i] \cup {"downloadUrl"} |->
                                       IF f = "downloadUrl"
                                       THEN preparedUrl(container.files[i], now)
                                       ELSE container.files[i][f]]]]]
    /\ UNCHANGED <<now, repo, blobs, nextId, up, sweep, sweep2, server, client>>

\* ------------------------------------------------------------- cron sweep

\* The query with the comparison the wrong way round.
findExpired_Gt(d) == SelectSeq(repo, LAMBDA c : c.expiresAt > d)

\* The query without its filter.
findExpired_All(d) == repo

findExpired_Lte(d) == SelectSeq(repo, LAMBDA c : c.expiresAt <= d)

\* Container.find({ expiresAt: { $lt: d } })
findExpired(d) == SelectSeq(repo, LAMBDA c : c.expiresAt < d)

\* The resource types without image.
destroyTypes_NoImage == <<"video", "raw">>

\* The resource types the sweep tries for each file, in order.
destroyTypes == <<"video", "image", "raw">>

\* The loop without its if (file.publicId): every file gets its destroy calls.
sweepAt_NoGuard(list, ci, fi) ==
    IF ci > Len(list) THEN [pc |-> "idle", ci |-> 0, fi |-> 0]
    ELSE IF fi > Len(list[ci].files) THEN [pc |-> "deleteMeta", ci |-> ci, fi |-> fi]
    ELSE [pc |-> "destroy", ci |-> ci, fi |-> fi]

\* Where the run stands once container ci's files before fi are done: at the next
\* file that has a publicId, else at the container's findByIdAndDelete, else (past
\* the last container) at its end.
\* A loop over the files that stops one short: the last file is passed over.
RECURSIVE sweepAt_SkipLast(_, _, _)
sweepAt_SkipLast(list, ci, fi) ==
    IF ci > Len(list) THEN [pc |-> "idle", ci |-> 0, fi |-> 0]
    ELSE IF fi >= Len(list[ci].files) THEN [pc |-> "deleteMeta", ci |-> ci, fi |-> fi]
    ELSE IF list[ci].files[fi].publicId = 0 THEN sweepAt_SkipLast(list, ci, fi + 1)
    ELSE [pc |-> "destroy", ci |-> ci, fi |-> fi]

RECURSIVE sweepAt(_, _, _)
sweepAt(list, ci, fi) ==
    IF ci > Len(list) THEN [pc |-> "idle", ci |-> 0, fi |-> 0]
    ELSE IF fi > Len(list[ci].files) THEN [pc |-> "deleteMeta", ci |-> ci, fi |-> fi]
    ELSE IF list[ci].files[fi].publicId = 0 THEN sweepAt(list, ci, fi + 1)
    ELSE [pc |-> "destroy", ci |-> ci, fi |-> fi]

sweepGoto(d, list, ci, fi) ==
    LET at == sweepAt(list, ci, fi)
    IN  IF at.pc = "idle" THEN IdleSweep
        ELSE [pc |-> at.pc, now |-> d, expiredContainers |-> list,
              ci |-> at.ci, fi |-> at.fi, calls |-> <<>>]

\* The cron callback starts: now is read and the expired containers are queried.
\* A rejected find ends the run.
SweepStart(dbOk) ==
    /\ sweep.pc = "idle"
    /\ sweep' = IF dbOk THEN sweepGoto(now, findExpired(now), 1, 1) ELSE IdleSweep
    /\ resp' = NoResp
    /\ UNCHANGED <<now, repo, blobs, nextId, up, sweep2, server, client>>

\* The three awaited cloudinary.uploader.destroy(file.publicId, { resource_type })
\* .catch(()=>{}) of one file end, video, image, raw in turn: the object of that
\* key and type, if the store holds it, is gone when the call worked; a failed
\* call is swallowed and the next one made. oks[t] tells whether call t worked.
destroyed(file, oks) ==
    { [key |-> file.publicId, rtype |-> destroyTypes[t]] :
        t \in { t \in 1..Len(destroyTypes) : oks[t] } }

\* One destroy call, under the resourceType of the file's record.
destroyCalls_OnlyRecorded(file) ==
    <<[key |-> file.publicId, rtype |-> file.resourceType]>>

\* The destroy calls made for one file.
destroyCalls(file) ==
    [t \in 1..Len(destroyTypes) |-> [key |-> file.publicId, rtype |-> destroyTypes[t]]]

\* The destroy calls without their .catch, the store rejecting the destroy of an
\* object it does not hold: the callback ends at a file whose blob is gone.
SweepDestroy_NotFoundRejects(oks) ==
    /\ sweep.pc = "destroy"
    /\ LET file == sweep.expiredContainers[sweep.ci].files[sweep.fi]
       IN  blobs' = blobs \ destroyed(file, oks)
    /\ LET file == sweep.expiredContainers[sweep.ci].files[sweep.fi]
       IN  sweep' = IF \E b \in blobs : b.key = file.publicId
                    THEN [sweepGoto(sweep.now, sweep.expiredContainers, sweep.ci, sweep.fi + 1)
                            EXCEPT !.calls = sweep.calls \o destroyCalls(file)]
                    ELSE IdleSweep
    /\ resp' = NoResp
    /\ UNCHANGED <<now, repo, nextId, up, sweep2, server, client>>

\* The destroy calls without their .catch: a failed call ends the callback.
SweepDestroy_Propagate(oks) ==
    /\ sweep.pc = "destroy"
    /\ LET file == sweep.expiredContainers[sweep.ci].files[sweep.fi]
       IN  blobs' = blobs \ destroyed(file, oks)
    /\ LET file == sweep.expiredContainers[sweep.ci].files[sweep.fi]
       IN  sweep' = IF \A t \in 1..Len(destroyTypes) : oks[t]
                    THEN [sweepGoto(sweep.now, sweep.expiredContainers, sweep.ci, sweep.fi + 1)
                            EXCEPT !.calls = sweep.calls \o destroyCalls(file)]
                    ELSE IdleSweep
    /\ resp' = NoResp
    /\ UNCHANGED <<now, repo, nextId, up, sweep2, server, client>>

SweepDestroy(oks) ==
    /\ sweep.pc = "destroy"
    /\ LET file == sweep.expiredContainers[sweep.ci].files[sweep.fi]
       IN  blobs' = blobs \ destroyed(file, oks)
    /\ LET file == sweep.expiredContainers[sweep.ci].files[sweep.fi]
       IN  sweep' = [sweepGoto(sweep.now, sweep.expiredContainers, sweep.ci, sweep.fi + 1)
                        EXCEPT !.calls = sweep.calls \o destroyCalls(file)]
    /\ resp' = NoResp
    /\ UNCHANGED <<now, repo, nextId, up, sweep2, server, client>>

\* A delete by the query of the find instead of by _id: the first record expired
\* as of the run's now goes, whichever container the run is at.
SweepDeleteMeta_AnyExpired(ok) ==
    /\ sweep.pc = "deleteMeta"
    /\ LET expired == SelectSeq(repo, LAMBDA c : c.expiresAt < sweep.now)
       IN  IF ok
           THEN /\ repo' = IF expired = <<>> THEN repo
                            ELSE SelectSeq(repo, LAMBDA c : c.id # expired[1].id)
                /\ sweep' = sweepGoto(sweep.now, sweep.expiredContainers, sweep.ci + 1, 1)
           ELSE /\ sweep' = IdleSweep
                /\ UNCHANGED repo
    /\ resp' = NoResp
    /\ UNCHANGED <<now, blobs, nextId, up, sweep2, server, client>>

\* await Container.findByIdAndDelete(container._id) ends. Its rejection is not
\* caught: it ends the callback.
SweepDeleteMeta(ok) ==
    /\ sweep.pc = "deleteMeta"
    /\ LET container == sweep.expiredContainers[sweep.ci]
       IN  IF ok
           THEN /\ repo' = SelectSeq(repo, LAMBDA c : c.id # container.id)
                /\ sweep' = sweepGoto(sweep.now, sweep.expiredContainers, sweep.ci + 1, 1)
           ELSE /\ sweep' = IdleSweep
                /\ UNCHANGED repo
    /\ resp' = NoResp
    /\ UNCHANGED <<now, blobs, nextId, up, sweep2, server, client>>

\* A second run of the cron callback, started while the first has not ended (the
\* schedule fires every minute whether or not the last run is done; or a second
\* instance of the server runs the same schedule).
Sweep2Start(dbOk) ==
    /\ sweep2.pc = "idle"
    /\ sweep2' = IF dbOk THEN sweepGoto(now, findExpired(now), 1, 1) ELSE IdleSweep
    /\ resp' = NoResp
    /\ UNCHANGED <<now, repo, blobs, nextId, up, sweep, server, client>>

Sweep2Destroy(oks) ==
    /\ sweep2.pc = "destroy"
    /\ LET file == sweep2.expiredContainers[sweep2.ci].files[sweep2.fi]
       IN  blobs' = blobs \ destroyed(file, oks)
    /\ LET file == sweep2.expiredContainers[sweep2.ci].files[sweep2.fi]
       IN  sweep2' = [sweepGoto(sweep2.now, sweep2.expiredContainers, sweep2.ci, sweep2.fi + 1)
                        EXCEPT !.calls = sweep2.calls \o destroyCalls(file)]
    /\ resp' = NoResp
    /\ UNCHANGED <<now, repo, nextId, up, sweep, server, client>>

Sweep2DeleteMeta(ok) ==
    /\ sweep2.pc = "deleteMeta"
    /\ LET container == sweep2.expiredContainers[sweep2.ci]
       IN  IF ok
           THEN /\ repo' = SelectSeq(repo, LAMBDA c : c.id # container.id)
                /\ sweep2' = sweepGoto(sweep2.now, sweep2.expiredContainers, sweep2.ci + 1, 1)
           ELSE /\ sweep2' = IdleSweep
                /\ UNCHANGED repo
    /\ resp' = NoResp
    /\ UNCHANGED <<now, blobs, nextId, up, sweep, server, client>>

\* The server process dies and is started again: whatever it was doing is lost,
\* the repository and the blob store keep what they hold.
Crash ==
    /\ up.pc # "idle" \/ sweep.pc # "idle" \/ sweep2.pc # "idle"
    /\ up' = IdleUp
    /\ sweep' = IdleSweep
    /\ sweep2' = IdleSweep
    /\ resp' = NoResp
    /\ UNCHANGED <<now, repo, blobs, nextId, server, client>>

\* ------------------------------------------------------------------- spec

\* The uuids and file ids a GET request may carry: those of the repository, and 0
\* for any other.
UuidInputs == { repo[i].uuid : i \in 1..Len(repo) } \cup {0}

FileIdInputs ==
    UNION { { repo[i].files[j].fid : j \in 1..Len(repo[i].files) } : i \in 1..Len(repo) }
        \cup {0}

Next ==
    \/ Tick
    \/ \E req \in UploadInputs, expiryDuration \in DurationInputs :
            UploadStart(req.files, req.containerName, expiryDuration)
    \/ \E ok \in BOOLEAN : UploadFile(ok)
    \/ \E ok \in BOOLEAN : UploadSave(ok)
    \/ \E uuid \in UuidInputs, dbOk \in BOOLEAN : SharePage(uuid, dbOk)
    \/ \E fileId \in FileIdInputs, dbOk \in BOOLEAN : DownloadAction(fileId, dbOk)
    \/ \E dbOk \in BOOLEAN : SweepStart(dbOk)
    \/ \E oks \in [1..Len(destroyTypes) -> BOOLEAN] : SweepDestroy(oks)
    \/ \E ok \in BOOLEAN : SweepDeleteMeta(ok)

Spec == Init /\ [][Next]_vars

\* Every destroy call of a file works.
AllOk == [t \in 1..Len(destroyTypes) |-> TRUE]

\* Reclamation with both stores answering every call of the sweep, where a second
\* run may overlap the first and the process may crash.
NextReclaim ==
    \/ Tick
    \/ \E req \in UploadInputs, expiryDuration \in DurationInputs :
            UploadStart(req.files, req.containerName, expiryDuration)
    \/ \E ok \in BOOLEAN : UploadFile(ok)
    \/ \E ok \in BOOLEAN : UploadSave(ok)
    \/ SweepStart(TRUE)
    \/ SweepDestroy(AllOk)
    \/ SweepDeleteMeta(TRUE)
    \/ Sweep2Start(TRUE)
    \/ Sweep2Destroy(AllOk)
    \/ Sweep2DeleteMeta(TRUE)
    \/ Crash

SpecReclaim == Init /\ [][NextReclaim]_vars

\* Records an earlier revision of the server, or a write that went wrong, left in
\* the repository: a file with neither url nor publicId, and a file written
\* before cleanName, extension and resourceType were stored.
LegacyCorruptFile ==
    [fid |-> MaxId + 1, originalName |-> <<"c", ".", "p", "n", "g">>, cleanName |-> <<>>,
     extension |-> <<>>, url |-> <<>>, publicId |-> 0, resourceType |-> ""]

LegacyFile ==
    [fid |-> MaxId + 2, originalName |-> <<"a", ".", "p", "n", "g">>, cleanName |-> <<>>,
     extension |-> <<>>, url |-> secure_url("image", MaxId + 2), publicId |-> MaxId + 2,
     resourceType |-> ""]

LegacyContainer ==
    [id |-> MaxId + 3, uuid |-> MaxId + 3, name |-> "Untitled Transfer",
     files |-> <<LegacyCorruptFile, LegacyFile>>, createdAt |-> 0, expiresAt |-> 1]

InitLegacy ==
    /\ now = 0
    /\ repo = <<LegacyContainer>>
    /\ blobs = { [key |-> LegacyFile.publicId, rtype |-> "image"] }
    /\ nextId = 1
    /\ up = IdleUp
    /\ sweep = IdleSweep
    /\ sweep2 = IdleSweep
    /\ server = Serving
    /\ resp = NoResp
    /\ client = PageLoaded

\* The GET routes, of both revisions of the share page, and the sweep over a
\* repository that holds such records.
NextLegacy ==
    \/ Tick
    \/ \E uuid \in UuidInputs, dbOk \in BOOLEAN : SharePage(uuid, dbOk)
    \/ \E uuid \in UuidInputs, dbOk \in BOOLEAN : SharePagePrepared(uuid, dbOk)
    \/ \E fileId \in FileIdInputs, dbOk \in BOOLEAN : DownloadAction(fileId, dbOk)
    \/ \E dbOk \in BOOLEAN : SweepStart(dbOk)
    \/ \E oks \in [1..Len(destroyTypes) -> BOOLEAN] : SweepDestroy(oks)
    \/ \E ok \in BOOLEAN : SweepDeleteMeta(ok)

SpecLegacy == InitLegacy /\ [][NextLegacy]_vars

\* The upload handler alone, over the wider inputs.
NextUploads ==
    \/ Tick
    \/ \E req \in MoreUploadInputs, expiryDuration \in DurationInputs :
            UploadStart(req.files, req.containerName, expiryDuration)
    \/ \E ok \in BOOLEAN : UploadFile(ok)
    \/ \E ok \in BOOLEAN : UploadSave(ok)

SpecUploads == Init /\ [][NextUploads]_vars

\* The process starts: mongoose.connect has been called and has not ended.
InitStartup ==
    /\ now = 0
    /\ repo = <<>>
    /\ blobs = {}
    /\ nextId = 1
    /\ up = IdleUp
    /\ sweep = IdleSweep
    /\ sweep2 = IdleSweep
    /\ server = [db |-> "connecting", listening |-> FALSE, cron |-> FALSE]
    /\ resp = NoResp
    /\ client = PageLoaded

\* The rest of the module runs, in the same turn as the call of connect: the
\* routes are set, cron.schedule and app.listen are called.
Load ==
    /\ ~server.listening
    /\ server' = [server EXCEPT !.listening = TRUE, !.cron = TRUE]
    /\ UNCHANGED <<now, repo, blobs, nextId, up, sweep, sweep2, resp, client>>

\* mongoose.connect ends: .then logs 'MongoDB Connected', .catch logs the error;
\* neither does anything else.
ConnectEnds(ok) ==
    /\ server.listening
    /\ server.db = "connecting"
    /\ server' = [server EXCEPT !.db = IF ok THEN "connected" ELSE "failed"]
    /\ UNCHANGED <<now, repo, blobs, nextId, up, sweep, sweep2, resp, client>>

\* The handlers and the callback without a connection: every call of the
\* repository is rejected.
NextDown ==
    \/ Tick
    \/ \E req \in UploadInputs, expiryDuration \in DurationInputs :
            UploadStart(req.files, req.containerName, expiryDuration)
    \/ \E ok \in BOOLEAN : UploadFile(ok)
    \/ UploadSave(FALSE)
    \/ \E uuid \in UuidInputs : SharePage(uuid, FALSE)
    \/ \E fileId \in FileIdInputs : DownloadAction(fileId, FALSE)
    \/ SweepStart(FALSE)

\* Start-up, and the server once the connection attempt has ended.
NextStartup ==
    \/ Load
    \/ \E ok \in BOOLEAN : ConnectEnds(ok)
    \/ server.listening /\ server.db = "connected" /\ Next
    \/ server.listening /\ server.db = "failed" /\ NextDown

SpecStartup == InitStartup /\ [][NextStartup]_vars

\* Uploads, the share page and the sweep with the repository answering every
\* call; uploads to the blob store and destroy calls may fail.
NextRepoOk ==
    \/ Tick
    \/ \E req \in UploadInputs, expiryDuration \in DurationInputs :
            UploadStart(req.files, req.containerName, expiryDuration)
    \/ \E ok \in BOOLEAN : UploadFile(ok)
    \/ UploadSave(TRUE)
    \/ \E uuid \in UuidInputs : SharePage(uuid, TRUE)
    \/ SweepStart(TRUE)
    \/ \E oks \in [1..Len(destroyTypes) -> BOOLEAN] : SweepDestroy(oks)
    \/ SweepDeleteMeta(TRUE)

SpecRepoOk == Init /\ [][NextRepoOk]_vars

\* Uploads and the sweep with the repository answering every call of the sweep;
\* destroy calls may fail.
NextLive ==
    \/ Tick
    \/ \E req \in UploadInputs, expiryDuration \in DurationInputs :
            UploadStart(req.files, req.containerName, expiryDuration)
    \/ \E ok \in BOOLEAN : UploadFile(ok)
    \/ \E ok \in BOOLEAN : UploadSave(ok)
    \/ SweepStart(TRUE)
    \/ \E oks \in [1..Len(destroyTypes) -> BOOLEAN] : SweepDestroy(oks)
    \/ SweepDeleteMeta(TRUE)

\* The clock goes on, the schedule fires the callback again once the last run has
\* ended, and every awaited call of a run ends.
SpecLive ==
    /\ Init
    /\ [][NextLive]_vars
    /\ WF_vars(Tick)
    /\ WF_vars(SweepStart(TRUE))
    /\ WF_vars(\E oks \in [1..Len(destroyTypes) -> BOOLEAN] : SweepDestroy(oks))
    /\ WF_vars(SweepDeleteMeta(TRUE))

\* -------------------------------------------------------- the upload page

\* The sequence without its element at position i (from 1).
RemoveAt(seq, i) == SubSeq(seq, 1, i - 1) \o SubSeq(seq, i + 1, Len(seq))

\* The div handleFiles appends for a file: it shows the file's name, and its
\* onclick carries the name.
fileItem(file) == [name |-> file.name]

\* handleFiles(files) of the first script: every file is pushed on filesToUpload
\* and gets a div at the end of fileList.
handleFiles(files) ==
    /\ Len(client.filesToUpload) + Len(files) <= MaxFiles
    /\ Len(client.fileList) + Len(files) <= MaxFiles
    /\ client' = [client EXCEPT
                    !.filesToUpload = @ \o files,
                    !.fileList = @ \o [i \in 1..Len(files) |-> fileItem(files[i])]]
    /\ UNCHANGED <<now, repo, blobs, nextId, up, sweep, sweep2, server, resp>>

\* A click on the cross of the i-th div, removeFile(this, name) with the name
\* its onclick carries: filesToUpload keeps the files of any other name, and
\* the div is removed.
removeFile(i) ==
    /\ i \in 1..Len(client.fileList)
    /\ LET name == client.fileList[i].name
       IN  client' = [client EXCEPT
                        !.filesToUpload = SelectSeq(@, LAMBDA f : f.name # name),
                        !.fileList = RemoveAt(@, i)]
    /\ UNCHANGED <<now, repo, blobs, nextId, up, sweep, sweep2, server, resp>>

\* A click on the upload button of the first script: with no file to send it
\* only alerts; else the files of filesToUpload go into the request's form data,
\* the loading overlay is shown and the request is sent.
uploadClick ==
    /\ client.overlay = "none"
    /\ client' = IF client.filesToUpload = <<>> THEN client
                 ELSE [client EXCEPT !.formData = client.filesToUpload,
                                     !.overlay = "loading"]
    /\ UNCHANGED <<now, repo, blobs, nextId, up, sweep, sweep2, server, resp>>

\* The fetch of the first script ends: the result overlay with the share link
\* when the answer says success, else an alert. The overlay stays until the
\* page is loaded again; the lists are as they were.
uploadDone(success) ==
    /\ client.overlay = "loading"
    /\ client' = [client EXCEPT !.overlay = IF success THEN "result" ELSE "none"]
    /\ UNCHANGED <<now, repo, blobs, nextId, up, sweep, sweep2, server, resp>>

\* The first script's page: files are added, entries removed, uploads made.
NextPage ==
    \/ \E files \in FileLists : handleFiles(files)
    \/ \E i \in 1..MaxFiles : removeFile(i)
    \/ uploadClick
    \/ \E success \in BOOLEAN : uploadDone(success)

SpecPage == Init /\ [][NextPage]_vars

\* ------------------------------------------- the upload page, later script

\* renderFileList(): fileStack is emptied and gets a div for every file of
\* selectedFiles, whose onclick carries the file's index, from 0.
renderFileList(selectedFiles) ==
    [i \in 1..Len(selectedFiles) |-> [name |-> selectedFiles[i].name, index |-> i - 1]]

\* handleFiles(files) of the later script
handleFiles2(files) ==
    /\ Len(client.selectedFiles) + Len(files) <= MaxFiles
    /\ client' = [client EXCEPT
                    !.selectedFiles = @ \o files,
                    !.fileStack = renderFileList(client.selectedFiles \o files)]
    /\ UNCHANGED <<now, repo, blobs, nextId, up, sweep, sweep2, server, resp>>

\* A click on the cross of the i-th div of fileStack, removeFile(index) with the
\* index its onclick carries: selectedFiles.splice(index, 1), and the list is
\* rendered again.
removeFile2(i) ==
    /\ i \in 1..Len(client.fileStack)
    /\ LET index == client.fileStack[i].index
           spliced == RemoveAt(client.selectedFiles, index + 1)
       IN  client' = [client EXCEPT !.selectedFiles = spliced,
                                    !.fileStack = renderFileList(spliced)]
    /\ UNCHANGED <<now, repo, blobs, nextId, up, sweep, sweep2, server, resp>>

\* A click on the upload button of the later script: with no file selected it
\* only alerts, else the request is sent.
uploadClick2 ==
    /\ client.pending < MaxPending
    /\ client' = IF client.selectedFiles = <<>> THEN client
                 ELSE [client EXCEPT !.pending = @ + 1]
    /\ UNCHANGED <<now, repo, blobs, nextId, up, sweep, sweep2, server, resp>>

\* The entries saveToHistory keeps.
HistoryLimit == 10

\* JSON.parse(localStorage.getItem('uploadHistory') || '[]'): getItem gives null
\* for an item that is not there.
parseHistory(uploadHistory) ==
    IF uploadHistory.present THEN uploadHistory.items ELSE <<>>

\* saveToHistory without its slice.
saveToHistory_NoSlice(uploadHistory, data, date) ==
    LET historyItem == [name |-> data.containerName, link |-> data.shareLink,
                        expiry |-> data.expiry, date |-> date]
    IN  [present |-> TRUE, items |-> <<historyItem>> \o parseHistory(uploadHistory)]

\* saveToHistory(data), at clock reading date: the uploadHistory item it stores.
saveToHistory(uploadHistory, data, date) ==
    LET historyItem == [name |-> data.containerName, link |-> data.shareLink,
                        expiry |-> data.expiry, date |-> date]
        history == <<historyItem>> \o parseHistory(uploadHistory)
    IN  [present |-> TRUE,
         items |-> IF Len(history) > HistoryLimit THEN SubSeq(history, 1, HistoryLimit)
                   ELSE history]

\* renderHistory(): the share links of the entries of the stored history, in
\* order.
renderHistory(uploadHistory) ==
    [i \in 1..Len(parseHistory(uploadHistory)) |-> parseHistory(uploadHistory)[i].link]

\* The answer to the page's n-th upload that is saved. The share link carries a
\* fresh uuid, and the page's clock has gone on since the save before.
UploadData(n) ==
    [success |-> TRUE, shareLink |-> n, containerName |-> "Docs", expiry |-> n + 1]

\* xhr.onload: with status 200 and data.success the upload is saved to the
\* history, else the page alerts.
xhrOnload(status, success) ==
    /\ client.pending > 0
    /\ IF status = 200 /\ success
       THEN /\ client.saved < MaxUploads
            /\ LET n == client.saved + 1
                   stored == saveToHistory(client.uploadHistory, UploadData(n), n)
               IN  client' = [client EXCEPT !.pending = @ - 1,
                                            !.saved = n,
                                            !.uploadHistory = stored,
                                            !.historyList = renderHistory(stored)]
       ELSE client' = [client EXCEPT !.pending = @ - 1]
    /\ UNCHANGED <<now, repo, blobs, nextId, up, sweep, sweep2, server, resp>>

\* xhr.onerror: the page alerts.
xhrOnerror ==
    /\ client.pending > 0
    /\ client' = [client EXCEPT !.pending = @ - 1]
    /\ UNCHANGED <<now, repo, blobs, nextId, up, sweep, sweep2, server, resp>>

\* clearHistory(): the item is removed from localStorage and the history
\* rendered again.
clearHistory ==
    /\ client' = [client EXCEPT
                    !.uploadHistory = [present |-> FALSE, items |-> <<>>],
                    !.historyList = renderHistory([present |-> FALSE, items |-> <<>>])]
    /\ UNCHANGED <<now, repo, blobs, nextId, up, sweep, sweep2, server, resp>>

\* The later script's page.
NextClient ==
    \/ \E files \in FileLists : handleFiles2(files)
    \/ \E i \in 1..MaxFiles : removeFile2(i)
    \/ uploadClick2
    \/ \E status \in { 200, 500 }, success \in BOOLEAN : xhrOnload(status, success)
    \/ xhrOnerror
    \/ clearHistory

SpecClient == Init /\ [][NextClient]_vars

\* ----------------------------------------------------------------- claims

RepoSet == { repo[i] : i \in 1..Len(repo) }

FileKeys(c) == { c.files[i].publicId : i \in 1..Len(c.files) }

BlobsOf(c, store) == { b \in store : b.key \in FileKeys(c) }

\* The requested duration is a number above zero.
PositiveDuration(expiryDuration) ==
    LET d == parseInt(expiryDuration) IN ~d.nan /\ d.v > 0

\* C1: the repository only ever grows by the record of the request that is at its
\* save, all of whose files have been uploaded: the record's files are the
\* request's files, in order, each with a storage key whose blob is in the store;
\* and the step in which an upload fails ends the handler with no record written.
C1_RecordOnlyAfterAllUploads ==
    [][ /\ Len(repo') > Len(repo) =>
            /\ up.pc = "saving"
            /\ Len(up.uploadedFiles) = Len(up.files)
            /\ repo' = Append(repo, repo'[Len(repo')])
            /\ repo'[Len(repo')].files = up.uploadedFiles
            /\ \A i \in 1..Len(up.uploadedFiles) :
                 /\ up.uploadedFiles[i].publicId # 0
                 /\ up.uploadedFiles[i].originalName = up.files[i].originalname
                 /\ \E b \in blobs : b.key = up.uploadedFiles[i].publicId
        /\ (up.pc = "uploading" /\ up'.pc = "idle") => repo' = repo
      ]_vars

\* A two-file request has been answered 200 and its record, both files keyed, is
\* in the repository.
C1_Witness ==
    /\ up.status = 200
    /\ \E c \in RepoSet :
         /\ Len(c.files) = 2
         /\ \A i \in 1..2 : c.files[i].publicId # 0

\* C2: when the upload of a file fails, no blob stored earlier in the same request
\* is left in the blob store.
C2_FailedUploadCleansBlobs ==
    [][ (up.pc = "uploading" /\ up'.pc = "idle") =>
            \A i \in 1..Len(up.uploadedFiles) :
                \A b \in blobs' : b.key # up.uploadedFiles[i].publicId
      ]_vars

\* C3: no response of the share page or of the download route hands out a
\* container's files once the clock is past the container's expiresAt.
C3_NoUrlAfterExpiry ==
    resp.outcome \in { "View", "Redirect" } => ~(resp.at > resp.container.expiresAt)

\* C4, as claimed: every answer of the share page is NotFound, Expired or the
\* view; NotFound iff no record has the uuid, Expired iff one has and the clock
\* is past its expiresAt.
C4_ThreeOutcomes ==
    resp.op = "share" =>
        LET c == findOneByUuid(resp.id)
        IN  /\ resp.outcome \in { "NotFound", "Expired", "View" }
            /\ resp.outcome = "NotFound" <=> c = NoContainer
            /\ resp.outcome = "Expired" <=> (c # NoContainer /\ now > c.expiresAt)

\* C4, amended: every answer of the share page is ServerError, NotFound, Expired
\* or the view; when it is not ServerError (the repository lookup worked), it is
\* NotFound iff no record has the uuid, Expired iff one has and the clock is past
\* its expiresAt, and else the view of that record.
C4_Classification ==
    resp.op = "share" =>
        LET c == findOneByUuid(resp.id)
        IN  /\ resp.outcome \in { "ServerError", "NotFound", "Expired", "View" }
            /\ resp.outcome # "ServerError" =>
                 /\ resp.outcome = "NotFound" <=> c = NoContainer
                 /\ resp.outcome = "Expired" <=> (c # NoContainer /\ now > c.expiresAt)
                 /\ resp.outcome = "View" <=> (c # NoContainer /\ ~(now > c.expiresAt))
                 /\ resp.outcome = "View" => resp.container = c

\* The share page answers Expired for a container the sweep has not touched: its
\* record and all its blobs are still there.
C4_Witness ==
    /\ resp.op = "share"
    /\ resp.outcome = "Expired"
    /\ \E c \in RepoSet :
         /\ c.uuid = resp.id
         /\ Cardinality(BlobsOf(c, blobs)) = Len(c.files)

\* C5: every record in the repository has expiresAt strictly after createdAt.
C5_ExpiresAfterCreated ==
    \A c \in RepoSet : c.expiresAt > c.createdAt

\* C6: on behalf of a request whose duration is not a number above zero, no blob is
\* written to the blob store and no record is written to the repository.
C6_BadDurationRejected ==
    [][ (up.pc # "idle" /\ ~PositiveDuration(up.expiryDuration)) =>
            /\ blobs' \subseteq blobs
            /\ Len(repo') <= Len(repo)
      ]_vars

\* C7: the record written for a request of N files and a duration of D > 0 minutes
\* has expiresAt = createdAt + D and the N files in the order submitted.
C7_ExactExpiry ==
    [][ (Len(repo') > Len(repo) /\ PositiveDuration(up.expiryDuration)) =>
            LET c == repo'[Len(repo')]
            IN  /\ c.expiresAt = c.createdAt + parseInt(up.expiryDuration).v
                /\ Len(c.files) = Len(up.files)
                /\ \A i \in 1..Len(c.files) :
                     c.files[i].originalName = up.files[i].originalname
      ]_vars

\* C8: a request with no file is answered 400 in the step it arrives, with the
\* blob store and the repository left as they were; the handler only ever goes on
\* with at least one file, and no record in the repository has an empty files.
C8_EmptyRequestRejected ==
    /\ [](\A c \in RepoSet : Len(c.files) >= 1)
    /\ [][ (up.pc = "idle" /\ up' # up) =>
              \/ /\ up'.pc = "uploading"
                 /\ Len(up'.files) >= 1
              \/ /\ up'.pc = "idle"
                 /\ up'.status = 400
                 /\ blobs' = blobs
                 /\ repo' = repo
         ]_vars

\* A request has been answered 400 and neither store has been written.
C8_Witness ==
    /\ up.pc = "idle"
    /\ up.status = 400
    /\ blobs = {}
    /\ repo = <<>>

\* A container the step leaves as it was: its record and its blobs.
Untouched(c) ==
    /\ c \in RepoSet'
    /\ BlobsOf(c, blobs) \subseteq blobs'

\* C9: a sweep run holds only containers whose expiresAt was before the now of its
\* query; a record leaves the repository, and a blob the store, only as one of
\* those containers'; every container not expired as of that now keeps its record
\* and all its blobs.
C9_SweepTouchesOnlyExpired ==
    /\ [](sweep.pc # "idle" =>
            /\ sweep.now <= now
            /\ \A k \in 1..Len(sweep.expiredContainers) :
                 sweep.expiredContainers[k].expiresAt < sweep.now)
    /\ [][ /\ \A c \in RepoSet \ RepoSet' :
                /\ sweep.pc = "deleteMeta"
                /\ c = sweep.expiredContainers[sweep.ci]
                /\ c.expiresAt < sweep.now
           /\ \A b \in blobs \ blobs' :
                /\ sweep.pc = "destroy"
                /\ b.key \in FileKeys(sweep.expiredContainers[sweep.ci])
                /\ sweep.expiredContainers[sweep.ci].expiresAt < sweep.now
           /\ \A c \in RepoSet :
                (sweep.pc = "idle" \/ ~(c.expiresAt < sweep.now)) => Untouched(c)
         ]_vars

\* A sweep run has deleted the blob of the expired container it is at and is about
\* to delete its record, while the repository holds a container not expired as of
\* the run's query, all of whose blobs are in the store.
C9_Witness ==
    /\ sweep.pc = "deleteMeta"
    /\ BlobsOf(sweep.expiredContainers[sweep.ci], blobs) = {}
    /\ \E c \in RepoSet :
         /\ ~(c.expiresAt < sweep.now)
         /\ Cardinality(BlobsOf(c, blobs)) = Len(c.files)

\* C10: when a sweep run ends, no container of its query that the run had not yet
\* come to is left in the repository.
C10_SweepRunNotAborted ==
    [][ (sweep.pc # "idle" /\ sweep'.pc = "idle") =>
            \A k \in 1..Len(sweep.expiredContainers) :
                k > sweep.ci => sweep.expiredContainers[k] \notin RepoSet'
      ]_vars

\* The number of destroy calls in a run's calls that name the key.
CallsFor(run, key) ==
    Cardinality({ k \in 1..Len(run.calls) : run.calls[k].key = key })

\* C11: the step in which the destroy calls of one file end, whether or not they
\* worked, leaves the run at a later file of the same container or at that
\* container's metadata delete, with the repository as it was; and the run leaves
\* the metadata delete only by that delete having been issued: the record is gone,
\* or the delete was rejected.
C11_BlobFailureSwallowed ==
    [][ /\ (sweep.pc = "destroy" /\ sweep' # sweep) =>
              /\ sweep'.pc \in { "destroy", "deleteMeta" }
              /\ sweep'.expiredContainers = sweep.expiredContainers
              /\ sweep'.ci = sweep.ci
              /\ sweep'.fi > sweep.fi
              /\ repo' = repo
        /\ (sweep.pc = "deleteMeta" /\ sweep' # sweep) =>
              \/ sweep.expiredContainers[sweep.ci] \notin RepoSet'
              \/ sweep'.pc = "idle" /\ repo' = repo
      ]_vars

\* A run is at the metadata delete of a two-file container whose first blob it
\* failed to delete and whose second blob it deleted.
C11_Witness ==
    /\ sweep.pc = "deleteMeta"
    /\ LET c == sweep.expiredContainers[sweep.ci]
       IN  /\ Len(c.files) = 2
           /\ c \in RepoSet
           /\ \E b \in blobs : b.key = c.files[1].publicId
           /\ \A b \in blobs : b.key # c.files[2].publicId

C18_OneDeleteCallPerKey ==
    [][ \A c \in RepoSet \ RepoSet' :
            \A i \in 1..Len(c.files) : CallsFor(sweep, c.files[i].publicId) = 1
      ]_vars

\* The container a run is at.
Current(run) == run.expiredContainers[run.ci]

\* The blobs in the store under the key of the file a run is at.
CurrentFileBlobs(run) ==
    { b \in blobs : b.key = Current(run).files[run.fi].publicId }

\* The step is the process dying: every handler is back at its start and neither
\* store has changed.
CrashStep ==
    /\ up' = IdleUp
    /\ sweep' = IdleSweep
    /\ sweep2' = IdleSweep
    /\ repo' = repo
    /\ blobs' = blobs

\* The run whose state goes from r to rn: a run that starts holds every record
\* expired as of now, whatever became of its blobs; the destroy calls of a file
\* leave the run at a later file of the container or at its metadata delete, and
\* change nothing when the blob is already gone; the metadata delete removes the
\* container's record and no other, and the run goes on to the next container.
RetryOk(r, rn) ==
    /\ (r.pc = "idle" /\ rn.pc # "idle") =>
          \A c \in RepoSet : c.expiresAt < now =>
              \E k \in 1..Len(rn.expiredContainers) : rn.expiredContainers[k] = c
    /\ (r.pc = "destroy" /\ rn # r /\ ~CrashStep) =>
          /\ rn.pc \in { "destroy", "deleteMeta" }
          /\ rn.ci = r.ci
          /\ rn.fi > r.fi
          /\ repo' = repo
          /\ CurrentFileBlobs(r) = {} => blobs' = blobs
    /\ (r.pc = "deleteMeta" /\ rn # r /\ ~CrashStep) =>
          /\ Current(r) \notin RepoSet'
          /\ RepoSet \ RepoSet' \subseteq { Current(r) }
          /\ rn.pc = "idle" => r.ci = Len(r.expiredContainers)

\* C13: a run's crash leaves the repository and the blob store as they are, so
\* the record of a container whose blobs the run had deleted is still there and
\* expired; the next run holds it again, its destroy calls for the blobs already
\* gone change nothing and do not end the run, and its metadata delete removes
\* the one record of the container (no two records share an id).
C13_CrashThenRetry ==
    /\ [](\A i, j \in 1..Len(repo) : repo[i].id = repo[j].id => i = j)
    /\ [][ RetryOk(sweep, sweep') /\ RetryOk(sweep2, sweep2') ]_vars

\* A run is at the destroy calls of a file whose blob is gone while the
\* container's record is in the repository and no other run is going: an earlier
\* run deleted the blob and crashed before its metadata delete.
C13_Witness ==
    /\ sweep.pc = "destroy"
    /\ sweep2.pc = "idle"
    /\ Current(sweep) \in RepoSet
    /\ CurrentFileBlobs(sweep) = {}

\* The deletes of a run r that finds the other run has done them already change
\* nothing and do not end the run.
SecondDeletesNoOp(r, rn) ==
    /\ (r.pc = "destroy" /\ CurrentFileBlobs(r) = {} /\ rn # r /\ ~CrashStep) =>
          /\ blobs' = blobs
          /\ repo' = repo
          /\ rn.pc # "idle"
    /\ (r.pc = "deleteMeta" /\ Current(r) \notin RepoSet /\ rn # r /\ ~CrashStep) =>
          /\ blobs' = blobs
          /\ repo' = repo
          /\ rn.pc = "idle" => r.ci = Len(r.expiredContainers)

\* C14: with two runs going, every container a run has passed is reclaimed, record
\* and blobs, as after a single run; a record or a blob goes only as that of the
\* expired container one of the runs is at; and the deletes that find the other
\* run has been there first change nothing and do not end the run.
C14_OverlappingRuns ==
    /\ [](\A r \in { sweep, sweep2 } :
            \A k \in 1..Len(r.expiredContainers) :
                k < r.ci =>
                    /\ r.expiredContainers[k] \notin RepoSet
                    /\ BlobsOf(r.expiredContainers[k], blobs) = {})
    /\ [][ /\ \A c \in RepoSet \ RepoSet' :
                \E r \in { sweep, sweep2 } :
                    /\ r.pc = "deleteMeta"
                    /\ c = Current(r)
                    /\ c.expiresAt < r.now
           /\ \A b \in blobs \ blobs' :
                \E r \in { sweep, sweep2 } :
                    /\ r.pc = "destroy"
                    /\ b.key \in FileKeys(Current(r))
                    /\ Current(r).expiresAt < r.now
           /\ SecondDeletesNoOp(sweep, sweep')
           /\ SecondDeletesNoOp(sweep2, sweep2')
         ]_vars

\* Both runs hold the same container; the first is at its metadata delete and the
\* record is gone already, deleted by the second, which has gone on.
C14_Witness ==
    /\ sweep.pc = "deleteMeta"
    /\ Current(sweep) \notin RepoSet
    /\ sweep2.pc # "idle"
    /\ \E k \in 1..Len(sweep2.expiredContainers) :
         /\ k < sweep2.ci
         /\ sweep2.expiredContainers[k] = Current(sweep)

\* C16, as claimed: when a record is deleted by the sweep, none of the container's
\* blobs is in the blob store.
C16_NoBlobLeft ==
    [][ \A c \in RepoSet \ RepoSet' : BlobsOf(c, blobs') = {} ]_vars

\* C16, amended: when a record is deleted by the sweep, the run has made, for
\* every blob of the container still in the blob store, a destroy call with the
\* blob's key and resource type: a blob is left only by a call that failed.
C16_LeftBlobsHadDeleteCall ==
    [][ \A c \in RepoSet \ RepoSet' :
            \A b \in BlobsOf(c, blobs') :
                \E k \in 1..Len(sweep.calls) :
                    sweep.calls[k] = [key |-> b.key, rtype |-> b.rtype]
      ]_vars

\* A run has deleted the record of a container and gone on to the next, and a
\* blob of the deleted container is still in the blob store.
C16_Witness ==
    /\ sweep.pc # "idle"
    /\ \E k \in 1..Len(sweep.expiredContainers) :
         /\ k < sweep.ci
         /\ sweep.expiredContainers[k] \notin RepoSet
         /\ BlobsOf(sweep.expiredContainers[k], blobs) # {}

\* C15: every container in the repository whose expiresAt the clock goes past is
\* in the end gone from the repository.
C15_EventuallyReclaimed ==
    \A id \in 1..MaxId :
        (\E c \in RepoSet : c.id = id /\ c.expiresAt < MaxTime)
            ~> (\A c \in RepoSet : c.id # id)

\* The one upload there has been was answered 200, its record has been deleted,
\* and its blob, the destroy of which failed, is still in the blob store.
C15_Witness ==
    /\ nextId = 3
    /\ up.status = 200
    /\ repo = <<>>
    /\ \E b \in blobs : b.key = 1

\* C17: the record saved for a request answered 200 carries the uuid of the share
\* link and the files uploaded, under a uuid no other record has; the share page
\* answers a uuid with the view of its record while the clock is not past the
\* record's expiresAt, with Expired once it is, and with NotFound when no record
\* has the uuid; a sweep run that starts holds every record the clock is past,
\* and when the run ends none of the records it held is in the repository.
C17_ViewThenExpiredThenNotFound ==
    /\ [](resp.op = "share" =>
            LET c == findOneByUuid(resp.id)
            IN  /\ (c # NoContainer /\ ~(now > c.expiresAt)) =>
                      (resp.outcome = "View" /\ resp.container = c)
                /\ (c # NoContainer /\ now > c.expiresAt) => resp.outcome = "Expired"
                /\ c = NoContainer => resp.outcome = "NotFound")
    /\ [][ /\ Len(repo') > Len(repo) =>
                /\ up'.status = 200
                /\ repo'[Len(repo')].uuid = up.newContainer.uuid
                /\ repo'[Len(repo')].files = up.uploadedFiles
                /\ \A c \in RepoSet : c.uuid # up.newContainer.uuid
           /\ (sweep.pc = "idle" /\ sweep'.pc # "idle") =>
                \A c \in RepoSet : now > c.expiresAt =>
                    \E k \in 1..Len(sweep'.expiredContainers) :
                        sweep'.expiredContainers[k] = c
           /\ (sweep.pc # "idle" /\ sweep'.pc = "idle") =>
                \A k \in 1..Len(sweep.expiredContainers) :
                    sweep.expiredContainers[k] \notin RepoSet'
         ]_vars

\* The one upload there has been was answered 200, the sweep has deleted its
\* record, and the share page answers NotFound.
C17_Witness ==
    /\ resp.op = "share"
    /\ resp.outcome = "NotFound"
    /\ nextId = 3
    /\ up.status = 200
    /\ repo = <<>>

\* C19, as claimed: the download route answers NotFound iff no record owns the
\* file id, Corrupt iff the owning record has no url, and else redirects.
C19_ThreeOutcomes ==
    resp.op = "download" =>
        LET c == findOneByFileId(resp.id)
        IN  /\ resp.outcome \in { "NotFound", "Corrupt", "Redirect" }
            /\ resp.outcome = "NotFound" <=> c = NoContainer
            /\ resp.outcome = "Corrupt" <=>
                  (c # NoContainer /\ fileById(c, resp.id).url = <<>>)

\* C19, amended: the download route answers ServerError, NotFound, Corrupt or a
\* redirect; when it is not ServerError (the repository lookup worked), it is
\* NotFound iff no record owns the file id, Corrupt iff the owning record has no
\* url, and else the redirect to the file's download url.
C19_Classification ==
    resp.op = "download" =>
        LET c == findOneByFileId(resp.id)
        IN  /\ resp.outcome \in { "ServerError", "NotFound", "Corrupt", "Redirect" }
            /\ resp.outcome # "ServerError" =>
                 /\ resp.outcome = "NotFound" <=> c = NoContainer
                 /\ resp.outcome = "Corrupt" <=>
                       (c # NoContainer /\ fileById(c, resp.id).url = <<>>)
                 /\ resp.outcome = "Redirect" <=>
                       (c # NoContainer /\ fileById(c, resp.id).url # <<>>)
                 /\ resp.outcome = "Redirect" =>
                       resp.url = downloadUrl(fileById(c, resp.id), now)

\* The download route answers Corrupt for the file without url of a container
\* whose other file has its url.
C19_Witness ==
    /\ resp.op = "download"
    /\ resp.outcome = "Corrupt"
    /\ \E c \in RepoSet :
         /\ HasFile(c, resp.id)
         /\ \E i \in 1..Len(c.files) : c.files[i].url # <<>>

\* C20: for a container not expired, the share page that prepares the download
\* links, its lookup answered, renders the view, with a download link for every
\* file that has a url, also when another file of the container has none.
C20_CorruptFileKeepsView ==
    (resp.op = "sharePrepared" /\ resp.error # "rejected") =>
        LET c == findOneByUuid(resp.id)
        IN  (c # NoContainer /\ ~(now > c.expiresAt)) =>
                /\ resp.outcome = "View"
                /\ \A i \in 1..Len(c.files) :
                     c.files[i].url # <<>> =>
                         resp.container.files[i].downloadUrl = preparedUrl(c.files[i], now)

\* C21: the url the download route redirects to is the url the share page that
\* prepares the download links gives the same file at the same clock reading.
C21_SameDownloadUrl ==
    (resp.op = "download" /\ resp.outcome = "Redirect") =>
        resp.url = preparedUrl(fileById(findOneByFileId(resp.id), resp.id), resp.at)

\* C22: no two records share an id, and every record in the repository is after
\* any step still there, all its fields as they were, or is the record of the
\* container whose metadata delete a sweep run is at, and then gone.
C22_ContainerReadOnly ==
    /\ [](\A i, j \in 1..Len(repo) : repo[i].id = repo[j].id => i = j)
    /\ [][ \A c \in RepoSet :
              \/ c \in RepoSet'
              \/ /\ sweep.pc = "deleteMeta"
                 /\ c = Current(sweep)
                 /\ \A x \in RepoSet' : x.id # c.id
         ]_vars

\* The download route has redirected to a file of the first of two records in
\* the repository: the record has outlived the upload of the second.
C22_Witness ==
    /\ Len(repo) = 2
    /\ resp.op = "download"
    /\ resp.outcome = "Redirect"
    /\ HasFile(repo[1], resp.id)
    /\ resp.container = repo[1]

\* C23: while an upload is going, the temporary files on disk are those of the
\* files not yet uploaded; once every file is uploaded, and once the handler has
\* answered, on whichever path, none is left.
C23_NoTempFileLeft ==
    /\ up.pc = "uploading" =>
          up.staged = (Len(up.uploadedFiles) + 1)..Len(up.files)
    /\ up.pc \in { "saving", "idle" } => up.staged = {}

\* A request of two files has been answered 500 after the first file was stored
\* and the upload of the second failed, and no temporary file is left.
C23_Witness ==
    /\ up.pc = "idle"
    /\ up.status = 500
    /\ up.staged = {}
    /\ nextId = 2
    /\ \E b \in blobs : b.key = 1

\* C24: once the connection to the repository has failed, the process neither
\* listens for requests nor runs the sweeper.
C24_NoServiceWithoutRepository ==
    server.db = "failed" => (~server.listening /\ ~server.cron)

\* The container names that are absent, empty or blank.
BlankNames == { "", " " }

\* C25: the record saved for a request has the name 'Untitled Transfer' when the
\* request's containerName is absent, empty or blank, and else the containerName.
C25_BlankNameGetsPlaceholder ==
    [][ Len(repo') > Len(repo) =>
            repo'[Len(repo')].name =
                IF up.containerName \in BlankNames THEN "Untitled Transfer"
                ELSE up.containerName
      ]_vars

\* The file names whose extension, whatever its case, is in the list.
ExpectedRawNames ==
    { ZipFile.originalname, SevenZFile.originalname, ApkFile.originalname }

\* C27: the upload of a file asks for raw when the file's extension, whatever
\* its case, is in the list, and for automatic detection for every other name;
\* the resourceType of the file's record is the type the blob is stored under,
\* raw when raw was asked for and else the type the store detected.
C27_ClassifiedByExtension ==
    /\ [](up.pc = "uploading" =>
            \A i \in 1..Len(up.files) :
                resType(up.files[i].originalname) =
                    IF up.files[i].originalname \in ExpectedRawNames THEN "raw"
                    ELSE "auto")
    /\ [][ (up.pc = "uploading" /\ Len(up'.uploadedFiles) > Len(up.uploadedFiles)) =>
              LET i == Len(up'.uploadedFiles)
                  file == up.files[i]
                  rec == up'.uploadedFiles[i]
              IN  /\ [key |-> rec.publicId, rtype |-> rec.resourceType] \in blobs'
                  /\ rec.resourceType =
                        IF file.originalname \in ExpectedRawNames THEN "raw"
                        ELSE file.detected
         ]_vars

\* The repository holds the record of a file whose extension is in the list in
\* mixed case, recorded as raw, and the record of an image, recorded as image.
C27_Witness ==
    \E c1, c2 \in RepoSet :
        /\ c1.files[1].originalName = ApkFile.originalname
        /\ c1.files[1].resourceType = "raw"
        /\ c2.files[1].originalName = PngFile.originalname
        /\ c2.files[1].resourceType = "image"

\* The destroy calls a step of the run adds to the run's calls.
CallsMade == SubSeq(sweep'.calls, Len(sweep.calls) + 1, Len(sweep'.calls))

\* C26: the step in which the destroy calls of a file end has made, whichever of
\* them worked, a call with the file's key under video, under image and under
\* raw, in that order, whatever resourceType the record has; so for every blob
\* the store holds under the key a call was made under the blob's resource type,
\* and every blob that left the store left by one of these calls.
C26_EveryCategoryTried ==
    [][ (sweep.pc = "destroy" /\ sweep' # sweep) =>
            LET file == Current(sweep).files[sweep.fi]
            IN  /\ CallsMade = <<[key |-> file.publicId, rtype |-> "video"],
                                 [key |-> file.publicId, rtype |-> "image"],
                                 [key |-> file.publicId, rtype |-> "raw"]>>
                /\ \A b \in blobs : b.key = file.publicId =>
                        \E k \in 1..Len(CallsMade) : CallsMade[k] = b
                /\ \A b \in blobs \ blobs' :
                        \E k \in 1..Len(CallsMade) : CallsMade[k] = b
      ]_vars

\* A run has made the three calls for each of a container's two files, one
\* stored as raw and one as image: the raw blob is gone, though the call under
\* video before it found nothing, and the image blob is left by a failed call.
C26_Witness ==
    /\ sweep.pc = "deleteMeta"
    /\ Len(sweep.calls) = 6
    /\ LET c == Current(sweep)
       IN  /\ c.files[1].resourceType = "raw"
           /\ c.files[2].resourceType = "image"
           /\ \A b \in blobs : b.key # c.files[1].publicId
           /\ \E b \in blobs : b.key = c.files[2].publicId

\* C28: when the share page of a container has just been served, every blob of
\* the container is in the blob store, and no sweep run under way holds the
\* container in the list it selected.
C28_ViewedContainerHasItsBlobs ==
    (resp.op = "share" /\ resp.outcome = "View") =>
        /\ \A i \in 1..Len(resp.container.files) :
              [key |-> resp.container.files[i].publicId,
               rtype |-> resp.container.files[i].resourceType] \in blobs
        /\ \A run \in { sweep, sweep2 } :
              run.pc # "idle" =>
                  \A k \in 1..Len(run.expiredContainers) :
                      run.expiredContainers[k].id # resp.container.id

\* The share page of a container is served while a sweep run that has deleted
\* the blobs of another container is about to delete that container's record.
C28_Witness ==
    /\ resp.op = "share"
    /\ resp.outcome = "View"
    /\ sweep.pc = "deleteMeta"
    /\ sweep.calls # <<>>
    /\ BlobsOf(Current(sweep), blobs) = {}
    /\ Current(sweep) \in RepoSet

\* The clock readings the two predicates are compared at.
ClockValues == 0..(MaxTime + 1)

\* C29: for every record of the repository and every clock reading, the sweep's
\* query selects the record exactly when the share handler's check finds it
\* expired; the share handler has answered Expired exactly for a container the
\* query selects at the handler's clock reading; and a run under way holds no
\* container whose expiresAt is the run's clock reading.
C29_PredicatesAgree ==
    /\ \A c \in RepoSet, d \in ClockValues :
          isExpired(d, c) <=>
              \E k \in 1..Len(findExpired(d)) : findExpired(d)[k] = c
    /\ (resp.op = "share" /\ resp.outcome \in { "View", "Expired" }) =>
          (resp.outcome = "Expired" <=>
              \E k \in 1..Len(findExpired(resp.at)) :
                  findExpired(resp.at)[k] = findOneByUuid(resp.id))
    /\ \A run \in { sweep, sweep2 } :
          run.pc # "idle" =>
              \A k \in 1..Len(run.expiredContainers) :
                  run.expiredContainers[k].expiresAt # run.now

\* At the clock reading a container's expiresAt, the container's share page is
\* served while a sweep run started at that reading is under way without it.
C29_Witness ==
    /\ resp.op = "share"
    /\ resp.outcome = "View"
    /\ resp.at = resp.container.expiresAt
    /\ sweep.pc # "idle"
    /\ sweep.now = resp.at
    /\ resp.container \in RepoSet

\* C30: a run makes destroy calls only for files that have a publicId, so none
\* of its calls is for a file without one; at a container's metadata delete the
\* three calls have been made for every file of the container that has a
\* publicId, files without one among them or not; and the run leaves the
\* metadata delete with the record gone, or by the delete's rejection.
C30_KeylessFileSkipped ==
    /\ [](sweep.pc = "destroy" => Current(sweep).files[sweep.fi].publicId # 0)
    /\ [](\A k \in 1..Len(sweep.calls) : sweep.calls[k].key # 0)
    /\ [](sweep.pc = "deleteMeta" =>
            \A i \in 1..Len(Current(sweep).files) :
                Current(sweep).files[i].publicId # 0 =>
                    CallsFor(sweep, Current(sweep).files[i].publicId) = Len(destroyTypes))
    /\ [][ (sweep.pc = "deleteMeta" /\ sweep' # sweep) =>
              \/ \A c \in RepoSet' : c.id # Current(sweep).id
              \/ sweep'.pc = "idle" /\ repo' = repo
         ]_vars

\* A run is at the metadata delete of the container whose first file has no
\* publicId: it has made the three calls for the second file, whose blob is
\* gone, and no other call.
C30_Witness ==
    /\ sweep.pc = "deleteMeta"
    /\ Current(sweep) = LegacyContainer
    /\ LegacyContainer.files[1].publicId = 0
    /\ Len(sweep.calls) = Len(destroyTypes)
    /\ CallsFor(sweep, LegacyFile.publicId) = Len(destroyTypes)
    /\ blobs = {}

\* The names of a sequence of files or of displayed entries, in order.
Names(seq) == [i \in 1..Len(seq) |-> seq[i].name]

\* C31: the files the page will send on upload are the files of the entries it
\* displays, name by name and in the same order.
C31_SendListIsDisplayedList ==
    Names(client.filesToUpload) = Names(client.fileList)

\* The history the page reads from localStorage.
History == parseHistory(client.uploadHistory)

\* C32: the stored history has at most 10 entries; its first entry is the upload
\* saved last and every next entry the upload saved just before the entry above
\* it; a save adds its upload and drops an entry only from a history of 10; and
\* the history changes without a save only by becoming empty.
C32_HistoryTenNewestFirst ==
    /\ [](Len(History) <= 10)
    /\ [](\A i \in 1..Len(History) :
            /\ History[i].date = client.saved - (i - 1)
            /\ History[i].link = UploadData(client.saved - (i - 1)).shareLink)
    /\ [](client.historyList = [i \in 1..Len(History) |-> History[i].link])
    /\ [][ client'.saved # client.saved =>
              Len(History') = IF Len(History) < 10 THEN Len(History) + 1 ELSE 10 ]_vars
    /\ [][ (client'.saved = client.saved /\
              client'.uploadHistory # client.uploadHistory) => History' = <<>> ]_vars

\* Twelve uploads have been saved, none cleared: the history holds the last ten,
\* the twelfth first and the third last.
C32_Witness ==
    /\ client.saved = 12
    /\ Len(History) = 10
    /\ History[1].date = 12
    /\ History[10].date = 3

====
